---- MODULE Spec2Model ----
(***************************************************************************)
(* Model of the streamlit-searchbox frontend (Searchbox.tsx, the function  *)
(* component variant at the head of the file): the per-instance            *)
(* controller SingleSearchBox, the datetime sub-widget                     *)
(* SimpleDatetimePicker and the aggregator SearchBoxFn, together with the  *)
(* browser's timer queue and the host bridge Streamlit.setComponentValue.  *)
(*                                                                         *)
(* Time is in milliseconds.  JavaScript array positions are 0-based; the   *)
(* sequences propsList and valueList hold position i at i + 1.             *)
(***************************************************************************)
EXTENDS Integers, Sequences, FiniteSets, TLC

----------------------------------------------------------------------------
(* Bounds of the exploration *)

MaxTime == 40
MaxKeys == 2
MaxEvents == 3
MaxRenders == 1
MaxInstances == 3

----------------------------------------------------------------------------
(* JavaScript values that travel to the host: null, undefined, a string or *)
(* a list of strings.  One record shape so that any two can be compared.   *)

V_null == [t |-> "null", s |-> "", l |-> <<>>]
V_undef == [t |-> "undefined", s |-> "", l |-> <<>>]
V_str(x) == [t |-> "string", s |-> x, l |-> <<>>]
V_list(q) == [t |-> "list", s |-> "", l |-> q]

\* x ?? null
NullishToNull(v) == IF v.t = "undefined" THEN V_null ELSE v

\* truthiness of v?.length
HasLength(v) ==
  \/ v.t = "string" /\ Len(v.s) > 0
  \/ v.t = "list" /\ Len(v.l) > 0

\* the marker held by a string-typed field whose content is JS undefined
UndefinedText == "<undefined>"

\* a possibly undefined text as a value
V_text(x) == IF x = UndefinedText THEN V_undef ELSE V_str(x)

\* string coercion in a concatenation
Coerce(x) == IF x = UndefinedText THEN "undefined" ELSE x

----------------------------------------------------------------------------
(* Options: what react-select hands to onChange is null, one Option        *)
(* (single-select) or an array of Options (multi-select).                  *)

OptBar == [value |-> "x", label |-> "Bar"]
OptBaz == [value |-> "y", label |-> "Baz"]
Options == {OptBar, OptBaz}

O_null == [t |-> "null", o |-> OptBar, l |-> <<>>]
O_one(o) == [t |-> "option", o |-> o, l |-> <<>>]
O_many(q) == [t |-> "options", o |-> OptBar, l |-> q]

RECURSIVE Labels(_)
\* (option as Option[]).map(({label}) => label)
Labels(q) == IF q = <<>> THEN <<>> ELSE <<Head(q).label>> \o Labels(Tail(q))

\* option.label ; undefined on an array
LabelOf(option) == IF option.t = "option" THEN option.o.label ELSE UndefinedText

\* the texts a user types, and the values of the datetime input
Texts == {"ab", "abc"}
DateTexts == {"2024-01-01"}

----------------------------------------------------------------------------
(* Host configuration: args.propsList, one InstanceConfig per position.    *)

CfgSingle ==
  [key |-> "k0", is_multi |-> FALSE, datetimepicker_props |-> FALSE,
   debounce |-> 15, default |-> V_str("d0"), option_source |-> "",
   clear_on_submit |-> FALSE, edit_after_submit |-> "option", button |-> TRUE,
   default_options |-> <<OptBar>>, options |-> <<OptBaz, OptBar>>]

CfgMulti ==
  [key |-> "k1", is_multi |-> TRUE, datetimepicker_props |-> FALSE,
   debounce |-> 0, default |-> V_list(<<"Bar">>), option_source |-> "",
   clear_on_submit |-> TRUE, edit_after_submit |-> "disabled", button |-> FALSE,
   default_options |-> <<OptBaz, OptBar>>, options |-> <<>>]

CfgDate ==
  [key |-> "k2", is_multi |-> FALSE, datetimepicker_props |-> TRUE,
   debounce |-> 0, default |-> V_undef, option_source |-> "",
   clear_on_submit |-> FALSE, edit_after_submit |-> "disabled", button |-> FALSE,
   default_options |-> <<>>, options |-> <<>>]

ConfigLists ==
  { <<>>, <<CfgMulti>>, <<CfgSingle, CfgDate>> }

----------------------------------------------------------------------------
VARIABLES
  now,               \* Date.now()
  propsList,         \* args.propsList of the current render
  globalState,       \* SearchBoxFn's state: the AggregateValue
  state,             \* SingleSearchBox state, per position
  value,             \* SimpleDatetimePicker's local value, per position
  lastSearchUpdate,  \* content of the lastSearchUpdate ref of the last render
  eventFired,        \* content of the eventFired ref of the last render
  timers,            \* pending setTimeout callbacks, in creation order
  nextTimerId,       \* next handle setTimeout returns
  nextId,            \* next object identity to allocate
  bridge,            \* the arguments of Streamlit.setComponentValue, in call order
  received,          \* number of calls of streamlitReturnGlobalFn
  renders,           \* history: host re-renders with a list of another length
  keys,              \* history: keystrokes per position
  lastOp,            \* history: the handler that ran last and its arguments
  polls,             \* pending waitUntil callbacks with what their check captured
  lastFired          \* history: the last assignment to eventFired.current, per position

vars == <<now, propsList, globalState, state, value, lastSearchUpdate,
          eventFired, timers, nextTimerId, nextId, bridge, received, renders,
          keys, lastOp, polls, lastFired>>

Indices == 0 .. Len(propsList) - 1
Cfg(i) == propsList[i + 1]
SearchIndices == {i \in Indices : ~Cfg(i).datetimepicker_props}
DateIndices == {i \in Indices : Cfg(i).datetimepicker_props}

Min(a, b) == IF a <= b THEN a ELSE b

----------------------------------------------------------------------------
(* Refs.  React.createRef() is evaluated in the body of the function       *)
(* component, so every render of an instance makes fresh ref objects whose *)
(* current is null; closures of an earlier render keep the ref they        *)
(* captured.                                                               *)

NoRecord == [set |-> FALSE, value |-> "", id |-> 0, createdAt |-> 0]
NoEvent == "null"

createRef(ix) == [i \in ix |-> NoRecord]
createEventRef(ix) == [i \in ix |-> NoEvent]

----------------------------------------------------------------------------
(* JavaScript arrays *)

\* list[i], undefined outside the array
Get(list, i) == IF i + 1 \in 1 .. Len(list) THEN list[i + 1] ELSE V_undef

\* copy = [...list]; copy[i] = v   (i >= 0; positions skipped over are holes)
SetAt(list, i, v) ==
  [k \in 1 .. (IF i + 1 > Len(list) THEN i + 1 ELSE Len(list)) |->
     IF k = i + 1 THEN v ELSE IF k <= Len(list) THEN list[k] ELSE V_undef]

----------------------------------------------------------------------------
(* Aggregator: SearchBoxFn *)

NoAction == [interaction |-> "null", value |-> V_null, index |-> -1]

\* useState initialiser of SearchBoxFn
InitialGlobalState(pl) ==
  [id |-> 0, action |-> NoAction, listId |-> 1,
   valueList |-> [k \in 1 .. Len(pl) |-> NullishToNull(pl[k].default)]]

\* streamlitReturnGlobalFn with newValueList.push(input.value) instead of the
\* assignment at input.index
streamlitReturnGlobalFn_push(s, input, id) ==
  LET newState ==
        IF input.interaction \in {"submit", "simple-value"}
        THEN [id |-> id, action |-> input, listId |-> id + 1,
              valueList |-> Append(s.valueList, input.value)]
        ELSE IF input.interaction = "reset"
        THEN [id |-> id, action |-> input, listId |-> id + 1,
              valueList |-> SetAt(s.valueList, input.index,
                                  IF HasLength(Get(s.valueList, input.index))
                                  THEN V_list(<<>>) ELSE V_null)]
        ELSE [id |-> id, action |-> input, listId |-> s.listId,
              valueList |-> s.valueList]
  IN [state |-> newState, calls |-> <<newState>>]

\* streamlitReturnGlobalFn storing the value of every event in its slot
streamlitReturnGlobalFn_anyKind(s, input, id) ==
  LET newState ==
        IF input.interaction = "reset"
        THEN [id |-> id, action |-> input, listId |-> id + 1,
              valueList |-> SetAt(s.valueList, input.index,
                                  IF HasLength(Get(s.valueList, input.index))
                                  THEN V_list(<<>>) ELSE V_null)]
        ELSE IF input.index >= 0
        THEN [id |-> id, action |-> input, listId |-> id + 1,
              valueList |-> SetAt(s.valueList, input.index, input.value)]
        ELSE [id |-> id, action |-> input, listId |-> s.listId,
              valueList |-> s.valueList]
  IN [state |-> newState, calls |-> <<newState>>]

\* streamlitReturnGlobalFn writing into the previous state, as
\* s[index] = ... ; return s
streamlitReturnGlobalFn_inPlace(s, input, id) ==
  LET newState ==
        IF input.interaction \in {"submit", "simple-value"}
        THEN [id |-> s.id, action |-> input, listId |-> s.listId,
              valueList |-> SetAt(s.valueList, input.index, input.value)]
        ELSE IF input.interaction = "reset"
        THEN [id |-> s.id, action |-> input, listId |-> s.listId,
              valueList |-> SetAt(s.valueList, input.index,
                                  IF HasLength(Get(s.valueList, input.index))
                                  THEN V_list(<<>>) ELSE V_null)]
        ELSE [id |-> s.id, action |-> input, listId |-> s.listId,
              valueList |-> s.valueList]
  IN [state |-> newState, calls |-> <<newState>>]

\* streamlitReturnGlobalFn whose reset always stores null
streamlitReturnGlobalFn_resetNull(s, input, id) ==
  LET newState ==
        IF input.interaction \in {"submit", "simple-value"}
        THEN [id |-> id, action |-> input, listId |-> id + 1,
              valueList |-> SetAt(s.valueList, input.index, input.value)]
        ELSE IF input.interaction = "reset"
        THEN [id |-> id, action |-> input, listId |-> id + 1,
              valueList |-> SetAt(s.valueList, input.index, V_null)]
        ELSE [id |-> id, action |-> input, listId |-> s.listId,
              valueList |-> s.valueList]
  IN [state |-> newState, calls |-> <<newState>>]

\* streamlitReturnGlobalFn assigning with ??= : a slot that holds a value
\* keeps it
streamlitReturnGlobalFn_fillsEmpty(s, input, id) ==
  LET newState ==
        IF input.interaction \in {"submit", "simple-value"}
        THEN [id |-> id, action |-> input, listId |-> id + 1,
              valueList |-> IF Get(s.valueList, input.index).t
                                 \in {"null", "undefined"}
                            THEN SetAt(s.valueList, input.index, input.value)
                            ELSE s.valueList]
        ELSE IF input.interaction = "reset"
        THEN [id |-> id, action |-> input, listId |-> id + 1,
              valueList |-> SetAt(s.valueList, input.index,
                                  IF HasLength(Get(s.valueList, input.index))
                                  THEN V_list(<<>>) ELSE V_null)]
        ELSE [id |-> id, action |-> input, listId |-> s.listId,
              valueList |-> s.valueList]
  IN [state |-> newState, calls |-> <<newState>>]

\* streamlitReturnGlobalFn recording the action only where it writes a slot
streamlitReturnGlobalFn_actionOnWrite(s, input, id) ==
  LET newState ==
        IF input.interaction \in {"submit", "simple-value"}
        THEN [id |-> id, action |-> input, listId |-> id + 1,
              valueList |-> SetAt(s.valueList, input.index, input.value)]
        ELSE IF input.interaction = "reset"
        THEN [id |-> id, action |-> input, listId |-> id + 1,
              valueList |-> SetAt(s.valueList, input.index,
                                  IF HasLength(Get(s.valueList, input.index))
                                  THEN V_list(<<>>) ELSE V_null)]
        ELSE [id |-> id, action |-> s.action, listId |-> s.listId,
              valueList |-> s.valueList]
  IN [state |-> newState, calls |-> <<newState>>]

\* streamlitReturnGlobalFn starting from the state of the first render, the
\* one that made the callback, instead of the updater's argument
streamlitReturnGlobalFn_staleState(s, input, id) ==
  LET list == InitialGlobalState(propsList).valueList
      newState ==
        IF input.interaction \in {"submit", "simple-value"}
        THEN [id |-> id, action |-> input, listId |-> id + 1,
              valueList |-> SetAt(list, input.index, input.value)]
        ELSE IF input.interaction = "reset"
        THEN [id |-> id, action |-> input, listId |-> id + 1,
              valueList |-> SetAt(list, input.index,
                                  IF HasLength(Get(list, input.index))
                                  THEN V_list(<<>>) ELSE V_null)]
        ELSE [id |-> id, action |-> input, listId |-> s.listId,
              valueList |-> list]
  IN [state |-> newState, calls |-> <<newState>>]

\* The state updater of streamlitReturnGlobalFn applied to state s; id is the
\* identity of the object it allocates for newState, id + 1 that of the copy
\* of the list when it makes one.  calls are the arguments handed to
\* Streamlit.setComponentValue.
streamlitReturnGlobalFn(s, input, id) ==
  LET newState ==
        IF input.interaction \in {"submit", "simple-value"}
        THEN [id |-> id, action |-> input, listId |-> id + 1,
              valueList |-> SetAt(s.valueList, input.index, input.value)]
        ELSE IF input.interaction = "reset"
        THEN [id |-> id, action |-> input, listId |-> id + 1,
              valueList |-> SetAt(s.valueList, input.index,
                                  IF HasLength(Get(s.valueList, input.index))
                                  THEN V_list(<<>>) ELSE V_null)]
        ELSE [id |-> id, action |-> input, listId |-> s.listId,
              valueList |-> s.valueList]
  IN [state |-> newState, calls |-> <<newState>>]

\* SearchBoxFnRenderer.streamlitReturnFn / onHeaderClick / onFooterClick:
\* hand one event to the aggregator; the parent's state change re-renders
\* every instance.
Emit(input) ==
  LET r == streamlitReturnGlobalFn(globalState, input, nextId)
  IN /\ globalState' = r.state
     /\ bridge' = bridge \o r.calls
     /\ received' = received + 1
     /\ nextId' = nextId + 2
     /\ lastSearchUpdate' = createRef(Indices)
     /\ eventFired' = createEventRef(Indices)

----------------------------------------------------------------------------
(* Instance controller: SingleSearchBox *)

DebounceSlack == 10
TickMs == DebounceSlack

\* useState initialiser of SingleSearchBox
InitialState(cfg) ==
  [menu |-> FALSE, selectedOption |-> O_null, selectedOptionList |-> <<>>,
   inputValue |-> cfg.option_source]

\* callbackSearch keeping the value of the previous record in newValue
callbackSearch_keepsValue(cur, input, debounce, t, newId) ==
  LET stale == cur.set /\ (t - cur.createdAt > debounce - DebounceSlack)
      resetTimeout == ~cur.set \/ stale
  IN [clear |-> IF stale THEN cur.id ELSE 0,
      schedule |-> resetTimeout,
      delay |-> debounce,
      current |-> [set |-> TRUE, value |-> cur.value,
                   id |-> IF resetTimeout THEN newId ELSE cur.id,
                   createdAt |-> IF resetTimeout THEN t ELSE cur.createdAt]]

\* callbackSearch scheduling its timer for debounce + 10 ms
callbackSearch_late(cur, input, debounce, t, newId) ==
  LET stale == cur.set /\ (t - cur.createdAt > debounce - DebounceSlack)
      resetTimeout == ~cur.set \/ stale
  IN [clear |-> IF stale THEN cur.id ELSE 0,
      schedule |-> resetTimeout,
      delay |-> debounce + DebounceSlack,
      current |-> [set |-> TRUE, value |-> input,
                   id |-> IF resetTimeout THEN newId ELSE cur.id,
                   createdAt |-> IF resetTimeout THEN t ELSE cur.createdAt]]

\* callbackSearch cancelling already at now - createdAt = debounce - 10
callbackSearch_atSlack(cur, input, debounce, t, newId) ==
  LET stale == cur.set /\ (t - cur.createdAt >= debounce - DebounceSlack)
      resetTimeout == ~cur.set \/ stale
  IN [clear |-> IF stale THEN cur.id ELSE 0,
      schedule |-> resetTimeout,
      delay |-> debounce,
      current |-> [set |-> TRUE, value |-> input,
                   id |-> IF resetTimeout THEN newId ELSE cur.id,
                   createdAt |-> IF resetTimeout THEN t ELSE cur.createdAt]]

\* callbackSearch up to its setState: cur is lastSearchUpdate.current, t is
\* Date.now(), newId the handle setTimeout would return.  clear is the handle
\* given to clearTimeout (0: none), schedule tells whether setTimeout is
\* called, current is the new lastSearchUpdate.current.
callbackSearch(cur, input, debounce, t, newId) ==
  LET stale == cur.set /\ (t - cur.createdAt > debounce - DebounceSlack)
      resetTimeout == ~cur.set \/ stale
  IN [clear |-> IF stale THEN cur.id ELSE 0,
      schedule |-> resetTimeout,
      delay |-> debounce,
      current |-> [set |-> TRUE, value |-> input,
                   id |-> IF resetTimeout THEN newId ELSE cur.id,
                   createdAt |-> IF resetTimeout THEN t ELSE cur.createdAt]]

\* submitValue reading option.label of the array in multi-select mode
submitValue_noMap(cfg, option) == V_text(LabelOf(option))

\* submitValue handing over option.value in single-select mode
submitValue_value(cfg, option) ==
  IF cfg.is_multi THEN V_list(Labels(option.l))
  ELSE IF option.t = "option" THEN V_str(option.o.value) ELSE V_undef

\* the value callbackSubmit hands to streamlitReturnFn("submit", ...)
submitValue(cfg, option) ==
  IF cfg.is_multi THEN V_list(Labels(option.l)) ELSE V_text(LabelOf(option))

\* callbackSubmit whose case "current" lacks its break and runs into "option"
callbackSubmit_fallthrough(cfg, s, option) ==
  LET input ==
        CASE cfg.edit_after_submit = "current" -> LabelOf(option)
          [] cfg.edit_after_submit = "option" -> LabelOf(option)
          [] cfg.edit_after_submit = "concat" ->
               Coerce(s.inputValue) \o " " \o Coerce(LabelOf(option))
          [] OTHER -> ""
  IN [menu |-> ~cfg.clear_on_submit,
      inputValue |-> IF cfg.clear_on_submit /\ cfg.is_multi THEN "" ELSE input,
      selectedOption |-> option,
      selectedOptionList |-> IF cfg.is_multi THEN option.l
                             ELSE s.selectedOptionList]

\* callbackSubmit whose input starts as the current text instead of ""
callbackSubmit_keepsText(cfg, s, option) ==
  LET input ==
        CASE cfg.edit_after_submit = "current" -> s.inputValue
          [] cfg.edit_after_submit = "option" -> LabelOf(option)
          [] cfg.edit_after_submit = "concat" ->
               Coerce(s.inputValue) \o " " \o Coerce(LabelOf(option))
          [] OTHER -> s.inputValue
  IN [menu |-> ~cfg.clear_on_submit,
      inputValue |-> IF cfg.clear_on_submit /\ cfg.is_multi THEN "" ELSE input,
      selectedOption |-> option,
      selectedOptionList |-> IF cfg.is_multi THEN option.l
                             ELSE s.selectedOptionList]

\* the state callbackSubmit's updater returns
callbackSubmit(cfg, s, option) ==
  LET input ==
        CASE cfg.edit_after_submit = "current" -> s.inputValue
          [] cfg.edit_after_submit = "option" -> LabelOf(option)
          [] cfg.edit_after_submit = "concat" ->
               Coerce(s.inputValue) \o " " \o Coerce(LabelOf(option))
          [] OTHER -> ""
  IN [menu |-> ~cfg.clear_on_submit,
      inputValue |-> IF cfg.clear_on_submit /\ cfg.is_multi THEN "" ELSE input,
      selectedOption |-> option,
      selectedOptionList |-> IF cfg.is_multi THEN option.l
                             ELSE s.selectedOptionList]

\* callbackReset leaving the menu open
callbackReset_menuOpen ==
  [menu |-> TRUE, selectedOption |-> O_null, selectedOptionList |-> <<>>,
   inputValue |-> ""]

\* the state callbackReset's updater returns
callbackReset ==
  [menu |-> FALSE, selectedOption |-> O_null, selectedOptionList |-> <<>>,
   inputValue |-> ""]

\* state.selectedOption?.value
selectedLabel_value(s) ==
  IF s.selectedOption.t = "option" THEN V_str(s.selectedOption.o.value)
  ELSE V_undef

\* state.selectedOption?.label
selectedLabel(s) == V_text(LabelOf(s.selectedOption))

----------------------------------------------------------------------------
(* Initial state: the first render of SearchBoxFn for some configuration *)

Op(op, i, option, input) ==
  [op |-> op, index |-> i, option |-> option, input |-> input,
   pos |-> Len(bridge)]

AsText(v) == IF v.t = "string" THEN v.s ELSE UndefinedText

\* useState(defaultVal) of SimpleDatetimePicker; "" where no picker is rendered
InitialValue(cfg) ==
  IF cfg.datetimepicker_props THEN AsText(cfg.default) ELSE ""

\* the first render of SearchBoxFn with one of the given configurations
FirstRender(lists) ==
  /\ now = 0
  /\ propsList \in lists
  /\ globalState = InitialGlobalState(propsList)
  /\ state = [i \in Indices |-> InitialState(Cfg(i))]
  /\ value = [i \in Indices |-> InitialValue(Cfg(i))]
  /\ lastSearchUpdate = createRef(Indices)
  /\ eventFired = createEventRef(Indices)
  /\ timers = <<>>
  /\ nextTimerId = 1
  /\ nextId = 2
  /\ bridge = <<>>
  /\ received = 0
  /\ renders = 0
  /\ keys = [i \in Indices |-> <<>>]
  /\ lastOp = [op |-> "mount", index |-> -1, option |-> O_null, input |-> "",
               pos |-> 0]
  /\ polls = {}
  /\ lastFired = createEventRef(Indices)

Init == FirstRender(ConfigLists)

\* room for one more user event that pushes, every pending timer still
\* being able to push
Room == Len(bridge) + Len(timers) < MaxEvents

----------------------------------------------------------------------------
(* Handlers of SingleSearchBox *)

\* onSelectInputChange whose setState empties selectedOptionList
onSelectInputChange_dropsList(i, inputValue) ==
  LET r == callbackSearch(lastSearchUpdate[i], inputValue, Cfg(i).debounce,
                          now, nextTimerId)
      kept == SelectSeq(timers, LAMBDA tm : tm.id # r.clear)
      \* closures that captured this render's ref see the write to it
      seen == [k \in 1 .. Len(kept) |->
                 IF kept[k].id = r.current.id
                 THEN [kept[k] EXCEPT !.ref = r.current] ELSE kept[k]]
  IN /\ i \in SearchIndices
     /\ inputValue # state[i].inputValue
     /\ Len(keys[i]) < MaxKeys
     /\ Room
     /\ timers' = IF r.schedule
                  THEN Append(seen, [id |-> nextTimerId, index |-> i,
                                     fireAt |-> now + r.delay,
                                     ref |-> r.current])
                  ELSE seen
     /\ nextTimerId' = IF r.schedule THEN nextTimerId + 1 ELSE nextTimerId
     /\ state' = [state EXCEPT ![i] =
                    [inputValue |-> inputValue, selectedOption |-> O_null,
                     selectedOptionList |-> <<>>,
                     menu |-> @.menu]]
     /\ lastSearchUpdate' = [lastSearchUpdate EXCEPT ![i] = NoRecord]
     /\ eventFired' = [eventFired EXCEPT ![i] = NoEvent]
     /\ keys' = [keys EXCEPT ![i] =
                   Append(@, [at |-> now, text |-> inputValue,
                              pos |-> Len(bridge)])]
     /\ lastOp' = Op("input-change", i, O_null, inputValue)
     /\ lastFired' = [lastFired EXCEPT ![i] = "search"]
     /\ UNCHANGED <<now, propsList, globalState, value, nextId, bridge,
                    received, renders, polls>>

\* onSelectInputChange with one timer handle for the whole page: the
\* keystroke clears the timer pending, whichever instance set it
onSelectInputChange_oneTimer(i, inputValue) ==
  LET r == callbackSearch(lastSearchUpdate[i], inputValue, Cfg(i).debounce,
                          now, nextTimerId)
      kept == <<>>
      \* closures that captured this render's ref see the write to it
      seen == [k \in 1 .. Len(kept) |->
                 IF kept[k].id = r.current.id
                 THEN [kept[k] EXCEPT !.ref = r.current] ELSE kept[k]]
  IN /\ i \in SearchIndices
     /\ inputValue # state[i].inputValue
     /\ Len(keys[i]) < MaxKeys
     /\ Room
     /\ timers' = IF r.schedule
                  THEN Append(seen, [id |-> nextTimerId, index |-> i,
                                     fireAt |-> now + r.delay,
                                     ref |-> r.current])
                  ELSE seen
     /\ nextTimerId' = IF r.schedule THEN nextTimerId + 1 ELSE nextTimerId
     /\ state' = [state EXCEPT ![i] =
                    [inputValue |-> inputValue, selectedOption |-> O_null,
                     selectedOptionList |-> @.selectedOptionList,
                     menu |-> @.menu]]
     /\ lastSearchUpdate' = [lastSearchUpdate EXCEPT ![i] = NoRecord]
     /\ eventFired' = [eventFired EXCEPT ![i] = NoEvent]
     /\ keys' = [keys EXCEPT ![i] =
                   Append(@, [at |-> now, text |-> inputValue,
                              pos |-> Len(bridge)])]
     /\ lastOp' = Op("input-change", i, O_null, inputValue)
     /\ lastFired' = [lastFired EXCEPT ![i] = "search"]
     /\ UNCHANGED <<now, propsList, globalState, value, nextId, bridge,
                    received, renders, polls>>

\* onSelectInputChange with action "input-change" (every other action of
\* react-select's InputActionMeta returns without effect): sets eventFired,
\* runs callbackSearch, and the setState re-renders the instance.
onSelectInputChange(i, inputValue) ==
  LET r == callbackSearch(lastSearchUpdate[i], inputValue, Cfg(i).debounce,
                          now, nextTimerId)
      kept == SelectSeq(timers, LAMBDA tm : tm.id # r.clear)
      \* closures that captured this render's ref see the write to it
      seen == [k \in 1 .. Len(kept) |->
                 IF kept[k].id = r.current.id
                 THEN [kept[k] EXCEPT !.ref = r.current] ELSE kept[k]]
  IN /\ i \in SearchIndices
     /\ inputValue # state[i].inputValue
     /\ Len(keys[i]) < MaxKeys
     /\ Room
     /\ timers' = IF r.schedule
                  THEN Append(seen, [id |-> nextTimerId, index |-> i,
                                     fireAt |-> now + r.delay,
                                     ref |-> r.current])
                  ELSE seen
     /\ nextTimerId' = IF r.schedule THEN nextTimerId + 1 ELSE nextTimerId
     /\ state' = [state EXCEPT ![i] =
                    [inputValue |-> inputValue, selectedOption |-> O_null,
                     selectedOptionList |-> @.selectedOptionList,
                     menu |-> @.menu]]
     /\ lastSearchUpdate' = [lastSearchUpdate EXCEPT ![i] = NoRecord]
     /\ eventFired' = [eventFired EXCEPT ![i] = NoEvent]
     /\ keys' = [keys EXCEPT ![i] =
                   Append(@, [at |-> now, text |-> inputValue,
                              pos |-> Len(bridge)])]
     /\ lastOp' = Op("input-change", i, O_null, inputValue)
     /\ lastFired' = [lastFired EXCEPT ![i] = "search"]
     /\ UNCHANGED <<now, propsList, globalState, value, nextId, bridge,
                    received, renders, polls>>

\* the arguments react-select hands to onChange for an instance
InList(o, q) == \E k \in 1 .. Len(q) : q[k] = o
Without(q, k) == [j \in 1 .. Len(q) - 1 |-> IF j < k THEN q[j] ELSE q[j + 1]]

SelectArgs(i) ==
  IF Cfg(i).is_multi
  THEN {O_many(Append(state[i].selectedOptionList, o)) :
          o \in {p \in Options : ~InList(p, state[i].selectedOptionList)}}
  ELSE {O_one(o) : o \in Options}

RemoveArgs(i) ==
  IF Cfg(i).is_multi
  THEN {O_many(Without(state[i].selectedOptionList, k)) :
          k \in 1 .. Len(state[i].selectedOptionList)}
  ELSE {O_null}

\* onSelectChange, case "select-option"
onSelectOption(i, option) ==
  /\ i \in SearchIndices
  /\ Room
  /\ option \in SelectArgs(i)
  /\ Emit([interaction |-> "submit", value |-> submitValue(Cfg(i), option),
           index |-> i])
  /\ state' = [state EXCEPT ![i] = callbackSubmit(Cfg(i), @, option)]
  /\ lastOp' = Op("select-option", i, option, "")
  /\ lastFired' = [lastFired EXCEPT ![i] = "submit"]
  /\ UNCHANGED <<now, propsList, value, timers, nextTimerId, renders, keys,
                 polls>>

\* onSelectChange, case "remove-value", without the return in single-select
\* mode
onRemoveValue_noGuard(i, option) ==
  /\ i \in SearchIndices
  /\ Room
  /\ option \in RemoveArgs(i)
  /\ lastOp' = Op("remove-value", i, option, "")
  /\ Emit([interaction |-> "submit",
           value |-> submitValue(Cfg(i), option), index |-> i])
  /\ state' = [state EXCEPT ![i] = callbackSubmit(Cfg(i), @, option)]
  /\ lastFired' = [lastFired EXCEPT ![i] = "submit"]
  /\ UNCHANGED <<now, propsList, value, timers, nextTimerId, renders,
                 keys, polls>>

\* onSelectChange, case "remove-value"
onRemoveValue(i, option) ==
  /\ i \in SearchIndices
  /\ Room
  /\ option \in RemoveArgs(i)
  /\ lastOp' = Op("remove-value", i, option, "")
  /\ IF ~Cfg(i).is_multi
     THEN UNCHANGED <<now, propsList, globalState, state, value,
                      lastSearchUpdate, eventFired, timers, nextTimerId,
                      nextId, bridge, received, renders, keys, polls,
                      lastFired>>
     ELSE /\ Emit([interaction |-> "submit",
                   value |-> submitValue(Cfg(i), option), index |-> i])
          /\ state' = [state EXCEPT ![i] = callbackSubmit(Cfg(i), @, option)]
          /\ lastFired' = [lastFired EXCEPT ![i] = "submit"]
          /\ UNCHANGED <<now, propsList, value, timers, nextTimerId, renders,
                         keys, polls>>

\* onSelectChange, case "clear"
onClear(i) ==
  /\ i \in SearchIndices
  /\ Room
  /\ Emit([interaction |-> "reset", value |-> V_str(""), index |-> i])
  /\ state' = [state EXCEPT ![i] = callbackReset]
  /\ lastOp' = Op("clear", i, O_null, "")
  /\ lastFired' = [lastFired EXCEPT ![i] = "reset"]
  /\ UNCHANGED <<now, propsList, value, timers, nextTimerId, renders, keys,
                 polls>>

onButtonClick(i) ==
  /\ i \in SearchIndices
  /\ Cfg(i).button
  /\ Room
  /\ Emit([interaction |-> "button-click", value |-> selectedLabel(state[i]),
           index |-> i])
  /\ lastOp' = Op("button-click", i, O_null, "")
  /\ lastFired' = [lastFired EXCEPT ![i] = "button-click"]
  /\ UNCHANGED <<now, propsList, state, value, timers, nextTimerId, renders,
                 keys, polls>>

----------------------------------------------------------------------------
(* SimpleDatetimePicker *)

\* onChange without setValue
onChange_noSetValue(i, v) ==
  /\ i \in DateIndices
  /\ Room
  /\ Emit([interaction |-> "simple-value", value |-> V_str(v), index |-> i])
  /\ lastOp' = Op("change", i, O_null, v)
  /\ UNCHANGED <<now, propsList, state, value, timers, nextTimerId, renders,
                 keys, polls, lastFired>>

\* onChange of the input
onChange(i, v) ==
  /\ i \in DateIndices
  /\ Room
  /\ value' = [value EXCEPT ![i] = v]
  /\ Emit([interaction |-> "simple-value", value |-> V_str(v), index |-> i])
  /\ lastOp' = Op("change", i, O_null, v)
  /\ UNCHANGED <<now, propsList, state, timers, nextTimerId, renders, keys,
                 polls, lastFired>>

----------------------------------------------------------------------------
(* Header and footer of SearchBoxFn *)

ElementIds == {"el1"}

onHeaderClick(id) ==
  /\ Room
  /\ Emit([interaction |-> "header-click", value |-> V_str(id), index |-> -1])
  /\ lastOp' = Op("header-click", -1, O_null, id)
  /\ UNCHANGED <<now, propsList, state, value, timers, nextTimerId, renders,
                 keys, polls, lastFired>>

\* onFooterClick with the interaction of onHeaderClick
onFooterClick_asHeader(id) ==
  /\ Room
  /\ Emit([interaction |-> "header-click", value |-> V_str(id), index |-> -1])
  /\ lastOp' = Op("footer-click", -1, O_null, id)
  /\ UNCHANGED <<now, propsList, state, value, timers, nextTimerId, renders,
                 keys, polls, lastFired>>

onFooterClick(id) ==
  /\ Room
  /\ Emit([interaction |-> "footer-click", value |-> V_str(id), index |-> -1])
  /\ lastOp' = Op("footer-click", -1, O_null, id)
  /\ UNCHANGED <<now, propsList, state, value, timers, nextTimerId, renders,
                 keys, polls, lastFired>>

----------------------------------------------------------------------------
(* The browser: the timer queue and the clock *)

Due(k) == timers[k].fireAt <= now

\* the timer the event loop runs next: earliest deadline, then oldest
NextTimer ==
  CHOOSE k \in 1 .. Len(timers) :
    \A j \in 1 .. Len(timers) :
      \/ timers[k].fireAt < timers[j].fireAt
      \/ timers[k].fireAt = timers[j].fireAt /\ k <= j

\* the callback callbackSearch gave to setTimeout:
\* streamlitReturnFn("search", lastSearchUpdate.current?.value)
searchTimeout ==
  /\ timers # <<>>
  /\ Due(NextTimer)
  /\ LET k == NextTimer
         tm == timers[k]
     IN /\ Emit([interaction |-> "search",
                 value |-> IF tm.ref.set THEN V_str(tm.ref.value) ELSE V_undef,
                 index |-> tm.index])
        /\ timers' = [j \in 1 .. Len(timers) - 1 |->
                        IF j < k THEN timers[j] ELSE timers[j + 1]]
        /\ lastOp' = Op("timeout", tm.index, O_null,
                        IF tm.ref.set THEN tm.ref.value ELSE UndefinedText)
  /\ UNCHANGED <<now, propsList, state, value, nextTimerId, renders, keys,
                 polls, lastFired>>

\* time passes, never beyond the deadline of a pending timer
Tick ==
  /\ now < MaxTime
  /\ \/ timers # <<>>
     \/ \E i \in SearchIndices :
          keys[i] # <<>> /\ now - keys[i][Len(keys[i])].at <= Cfg(i).debounce
  /\ \A k \in 1 .. Len(timers) : ~Due(k)
  /\ now' = IF timers = <<>> THEN now + TickMs
            ELSE Min(now + TickMs, timers[NextTimer].fireAt)
  /\ UNCHANGED <<propsList, globalState, state, value, lastSearchUpdate,
                 eventFired, timers, nextTimerId, nextId, bridge, received,
                 renders, keys, lastOp, polls, lastFired>>

----------------------------------------------------------------------------
Next ==
  \/ \E i \in Indices, t \in Texts : onSelectInputChange(i, t)
  \/ \E i \in Indices : \E option \in SelectArgs(i) : onSelectOption(i, option)
  \/ \E i \in Indices : \E option \in RemoveArgs(i) : onRemoveValue(i, option)
  \/ \E i \in Indices : onClear(i)
  \/ \E i \in Indices : onButtonClick(i)
  \/ \E i \in Indices, v \in DateTexts : onChange(i, v)
  \/ \E id \in ElementIds : onHeaderClick(id)
  \/ \E id \in ElementIds : onFooterClick(id)
  \/ searchTimeout
  \/ Tick

Spec == Init /\ [][Next]_vars

----------------------------------------------------------------------------
(* The host sends new args: SearchBoxFn renders again with a propsList of  *)
(* another length.  React keeps the state of SearchBoxFn and of every      *)
(* instance whose key stays at its position, mounts the instances that are *)
(* new and unmounts those that are gone; timers already scheduled stay in  *)
(* the browser's queue.                                                    *)

HasKey(pl, key) == \E k \in 1 .. Len(pl) : pl[k].key = key

NewLists ==
  (IF propsList = <<>> THEN {}
   ELSE {SubSeq(propsList, 1, Len(propsList) - 1)})
  \cup {Append(propsList, c) :
          c \in {d \in {CfgSingle, CfgMulti, CfgDate} :
                   ~HasKey(propsList, d.key)}}

Kept(pl, i) == i \in Indices /\ Cfg(i).key = pl[i + 1].key

render(pl) ==
  LET ix == 0 .. Len(pl) - 1
  IN /\ renders < MaxRenders
     /\ Len(pl) <= MaxInstances
     /\ Len(pl) # Len(propsList)
     /\ propsList' = pl
     /\ renders' = renders + 1
     /\ state' = [i \in ix |-> IF Kept(pl, i) THEN state[i]
                               ELSE InitialState(pl[i + 1])]
     /\ value' = [i \in ix |-> IF Kept(pl, i) THEN value[i]
                               ELSE InitialValue(pl[i + 1])]
     /\ keys' = [i \in ix |-> IF Kept(pl, i) THEN keys[i] ELSE <<>>]
     /\ lastSearchUpdate' = createRef(ix)
     /\ eventFired' = createEventRef(ix)
     /\ lastOp' = Op("render", -1, O_null, "")
     \* the setState of a callback of an unmounted instance does nothing
     /\ polls' = {p \in polls : Kept(pl, p.index)}
     /\ lastFired' = [i \in ix |-> IF Kept(pl, i) THEN lastFired[i]
                                   ELSE NoEvent]
     /\ UNCHANGED <<now, globalState, timers, nextTimerId, nextId, bridge,
                    received>>

NextReconf ==
  \/ Next
  \/ \E pl \in NewLists : render(pl)

SpecReconf == Init /\ [][NextReconf]_vars

----------------------------------------------------------------------------
(* Every combination of multiplicity, clear_on_submit and                  *)
(* edit_after_submit on a single instance.                                 *)

Modes == {"disabled", "current", "option", "concat"}

CfgMode(multi, clear, mode) ==
  [key |-> "k3", is_multi |-> multi, datetimepicker_props |-> FALSE,
   debounce |-> 0, default |-> V_undef, option_source |-> "",
   clear_on_submit |-> clear, edit_after_submit |-> mode, button |-> FALSE,
   default_options |-> <<OptBar>>, options |-> <<OptBaz, OptBar>>]

ModeLists ==
  {<<CfgMode(multi, clear, mode)>> :
     multi \in BOOLEAN, clear \in BOOLEAN, mode \in Modes}
  \cup {<<CfgSingle, CfgDate>>}

InitModes == FirstRender(ModeLists)

SpecModes == InitModes /\ [][Next]_vars

----------------------------------------------------------------------------
(* Focus.  onFocus reads state.inputValue and option_source of its render; *)
(* the check it hands to waitUntil is a closure over these two constants.  *)
(* Only the promise of the first waitUntil call is the one onFocus chained *)
(* openSelectMenu to: the call waitUntil makes on a failed check returns a *)
(* promise nobody holds.  The delay of the callback is not counted: it     *)
(* runs at some later point.                                               *)

\* truthiness of a string
Truthy(x) == x # "" /\ x # UndefinedText

\* onFocus without the test of inputValue
onFocusEffects_always(i, source, inputValue) ==
  [search |-> <<[interaction |-> "search", value |-> V_str(inputValue),
                 index |-> i]>>,
   polls |-> {[index |-> i, option_source |-> source,
               inputValue |-> inputValue, chained |-> TRUE]}]

\* what onFocus of position i does: the events it hands to streamlitReturnFn
\* and the waitUntil callbacks it schedules
onFocusEffects(i, source, inputValue) ==
  IF Truthy(inputValue)
  THEN [search |-> <<[interaction |-> "search", value |-> V_str(inputValue),
                      index |-> i]>>,
        polls |-> {[index |-> i, option_source |-> source,
                    inputValue |-> inputValue, chained |-> TRUE]}]
  ELSE [search |-> <<>>, polls |-> {}]

onFocus(i) ==
  LET r == onFocusEffects(i, Cfg(i).option_source, state[i].inputValue)
  IN /\ i \in SearchIndices
     /\ lastOp' = Op("focus", i, O_null, state[i].inputValue)
     /\ polls' = polls \cup r.polls
     /\ IF r.search = <<>>
        THEN UNCHANGED <<now, propsList, globalState, state, value,
                         lastSearchUpdate, eventFired, timers, nextTimerId,
                         nextId, bridge, received, renders, keys, lastFired>>
        ELSE /\ Room
             /\ Emit(r.search[1])
             /\ lastFired' = [lastFired EXCEPT ![i] = "search"]
             /\ UNCHANGED <<now, propsList, state, value, timers,
                            nextTimerId, renders, keys>>

\* the state openSelectMenu's updater returns
openSelectMenu(s) == [s EXCEPT !.menu = TRUE]

\* the callback waitUntil gave to setTimeout
waitUntilTimeout(p) ==
  /\ p \in polls
  /\ lastOp' = Op("poll", p.index, O_null, p.inputValue)
  /\ IF p.option_source = p.inputValue
     THEN /\ polls' = polls \ {p}
          /\ IF p.chained
             THEN /\ state' = [state EXCEPT ![p.index] = openSelectMenu(@)]
                  /\ lastSearchUpdate' =
                       [lastSearchUpdate EXCEPT ![p.index] = NoRecord]
                  /\ eventFired' = [eventFired EXCEPT ![p.index] = NoEvent]
             ELSE UNCHANGED <<state, lastSearchUpdate, eventFired>>
     ELSE /\ polls' = (polls \ {p}) \cup {[p EXCEPT !.chained = FALSE]}
          /\ UNCHANGED <<state, lastSearchUpdate, eventFired>>
  /\ UNCHANGED <<now, propsList, globalState, value, timers, nextTimerId,
                 nextId, bridge, received, renders, keys, lastFired>>

\* the option list the host sends along with an option_source
HostOptions(src) == IF src = "ab" THEN <<OptBaz, OptBar>> ELSE <<OptBar>>

\* the host answered a search of position i: SearchBoxFn renders again with
\* that text as the instance's option_source and the options found for it.
\* useState keeps the state.
renderOptionSource(i, src) ==
  /\ i \in SearchIndices
  /\ src # Cfg(i).option_source
  /\ \E p \in 1 .. Len(bridge) :
       bridge[p].action = [interaction |-> "search", value |-> V_str(src),
                           index |-> i]
  /\ propsList' = [propsList EXCEPT ![i + 1].option_source = src,
                                   ![i + 1].options = HostOptions(src)]
  /\ lastSearchUpdate' = createRef(Indices)
  /\ eventFired' = createEventRef(Indices)
  /\ lastOp' = Op("render", i, O_null, src)
  /\ UNCHANGED <<now, globalState, state, value, timers, nextTimerId, nextId,
                 bridge, received, renders, keys, polls, lastFired>>

\* optionList by the rule of the oldest variant: the options once the
\* option_source equals the text, no option before
optionList_whenAnswered(cfg, s) ==
  IF cfg.option_source = s.inputValue THEN cfg.options ELSE <<>>

\* optionList as the render computes it from the props and the state
optionList(cfg, s) ==
  IF s.inputValue = "" THEN cfg.default_options ELSE cfg.options

\* the filterOption given to Select
filterOption(option, input) == TRUE

\* the options the menu of position i lists
menuOptions(i) ==
  SelectSeq(optionList(Cfg(i), state[i]),
            LAMBDA o : filterOption(o, state[i].inputValue))

\* isLoading as the render of position i computes it
isLoading(i) ==
  eventFired[i] = "search" /\ Cfg(i).option_source # state[i].inputValue

NextFocus ==
  \/ Next
  \/ \E i \in Indices : onFocus(i)
  \/ \E p \in polls : waitUntilTimeout(p)
  \/ \E i \in Indices, src \in Texts : renderOptionSource(i, src)

SpecFocus == Init /\ [][NextFocus]_vars

\* the browser runs a callback whose time has come, and time passes
SpecFocusFair ==
  /\ SpecFocus
  /\ WF_vars(\E p \in polls : waitUntilTimeout(p))
  /\ WF_vars(searchTimeout)
  /\ WF_vars(Tick)

----------------------------------------------------------------------------
(* Two search boxes side by side, neither header nor footer, and a host   *)
(* that sends no new args: the handlers of the two instances, their       *)
(* timers and their focus polls.                                           *)

PairLists == {<<CfgSingle, CfgMulti>>}

InitPair == FirstRender(PairLists)

NextPair ==
  \/ \E i \in Indices, t \in Texts : onSelectInputChange(i, t)
  \/ \E i \in Indices : \E option \in SelectArgs(i) : onSelectOption(i, option)
  \/ \E i \in Indices : \E option \in RemoveArgs(i) : onRemoveValue(i, option)
  \/ \E i \in Indices : onClear(i)
  \/ \E i \in Indices : onButtonClick(i)
  \/ \E i \in Indices : onFocus(i)
  \/ \E p \in polls : waitUntilTimeout(p)
  \/ searchTimeout
  \/ Tick

SpecPair == InitPair /\ [][NextPair]_vars

----------------------------------------------------------------------------
(* The class component variant (second half of Searchbox.tsx).  The refs   *)
(* lastSearchUpdate and eventFired are fields of the SingleSearchBox       *)
(* object: they live as long as the instance and every closure reads the   *)
(* same ref.  The aggregator Searchbox keeps one slot per position, the    *)
(* last event of that position, and pushes the list of slots.              *)

CfgClass ==
  [key |-> "k4", is_multi |-> FALSE, datetimepicker_props |-> FALSE,
   debounce |-> 20, default |-> V_undef, option_source |-> "",
   clear_on_submit |-> FALSE, edit_after_submit |-> "option", button |-> TRUE,
   default_options |-> <<>>, options |-> <<OptBaz, OptBar>>]

ClassLists == {<<CfgClass>>, <<CfgClass, CfgMulti>>}

\* a slot of the state of Searchbox: null, undefined or a StreamlitReturn
S_null == [t |-> "null", interaction |-> "null", value |-> V_null,
           isChangeSource |-> FALSE]
S_undef == [t |-> "undefined", interaction |-> "null", value |-> V_null,
            isChangeSource |-> FALSE]
S_return(interaction, v, src) ==
  [t |-> "return", interaction |-> interaction, value |-> v,
   isChangeSource |-> src]

\* state = this.props.args.propsList.map(() => null)
Class_InitialGlobalState(pl) ==
  [id |-> 0, action |-> NoAction, listId |-> 1,
   valueList |-> [k \in 1 .. Len(pl) |-> S_null]]

\* streamlitReturnGlobalFn of Searchbox without the reset of isChangeSource
\* on the slots it keeps
Class_streamlitReturnGlobalFn_keepsFlag(s, pl, input, id) ==
  LET old(k) == IF k \in 1 .. Len(s.valueList) THEN s.valueList[k]
                ELSE S_undef
      newState ==
        [id |-> id, action |-> input, listId |-> id + 1,
         valueList |->
           [k \in 1 .. Len(pl) |->
              IF k = input.index + 1
              THEN S_return(input.interaction, input.value, TRUE)
              ELSE old(k)]]
  IN [state |-> newState, calls |-> <<newState>>]

\* The state updater of Searchbox's streamlitReturnGlobalFn(index, returnVal)
\* applied to the list of slots s under the propsList pl.  The list is what
\* is handed to Streamlit.setComponentValue; action keeps the arguments of
\* the call.
Class_streamlitReturnGlobalFn(s, pl, input, id) ==
  LET old(k) == IF k \in 1 .. Len(s.valueList) THEN s.valueList[k]
                ELSE S_undef
      newState ==
        [id |-> id, action |-> input, listId |-> id + 1,
         valueList |->
           [k \in 1 .. Len(pl) |->
              IF k = input.index + 1
              THEN S_return(input.interaction, input.value, TRUE)
              ELSE IF old(k).t = "return"
                   THEN [old(k) EXCEPT !.isChangeSource = FALSE]
                   ELSE old(k)]]
  IN [state |-> newState, calls |-> <<newState>>]

\* streamlitReturnFn of position index; the refs of the instances stay
Class_Emit(input) ==
  LET r == Class_streamlitReturnGlobalFn(globalState, propsList, input, nextId)
  IN /\ globalState' = r.state
     /\ bridge' = bridge \o r.calls
     /\ received' = received + 1
     /\ nextId' = nextId + 2

ClassFirstRender ==
  /\ now = 0
  /\ propsList \in ClassLists
  /\ globalState = Class_InitialGlobalState(propsList)
  /\ state = [i \in Indices |-> InitialState(Cfg(i))]
  /\ value = [i \in Indices |-> ""]
  /\ lastSearchUpdate = createRef(Indices)
  /\ eventFired = createEventRef(Indices)
  /\ timers = <<>>
  /\ nextTimerId = 1
  /\ nextId = 2
  /\ bridge = <<>>
  /\ received = 0
  /\ renders = 0
  /\ keys = [i \in Indices |-> <<>>]
  /\ lastOp = [op |-> "mount", index |-> -1, option |-> O_null, input |-> "",
               pos |-> 0]
  /\ polls = {}
  /\ lastFired = createEventRef(Indices)

\* onInputChange with action "input-change": sets eventFired and runs
\* callbackSearch, whose record stays in the instance's lastSearchUpdate;
\* this.setState merges, so menu stays
Class_onInputChange(i, inputValue) ==
  LET r == callbackSearch(lastSearchUpdate[i], inputValue, Cfg(i).debounce,
                          now, nextTimerId)
      kept == SelectSeq(timers, LAMBDA tm : tm.id # r.clear)
  IN /\ i \in SearchIndices
     /\ inputValue # state[i].inputValue
     /\ Len(keys[i]) < MaxKeys
     /\ Room
     /\ timers' = IF r.schedule
                  THEN Append(kept, [id |-> nextTimerId, index |-> i,
                                     fireAt |-> now + r.delay,
                                     ref |-> NoRecord])
                  ELSE kept
     /\ nextTimerId' = IF r.schedule THEN nextTimerId + 1 ELSE nextTimerId
     /\ state' = [state EXCEPT ![i] =
                    [inputValue |-> inputValue, selectedOption |-> O_null,
                     selectedOptionList |-> @.selectedOptionList,
                     menu |-> @.menu]]
     /\ lastSearchUpdate' = [lastSearchUpdate EXCEPT ![i] = r.current]
     /\ eventFired' = [eventFired EXCEPT ![i] = "search"]
     /\ keys' = [keys EXCEPT ![i] =
                   Append(@, [at |-> now, text |-> inputValue,
                              pos |-> Len(bridge)])]
     /\ lastOp' = Op("input-change", i, O_null, inputValue)
     /\ lastFired' = [lastFired EXCEPT ![i] = "search"]
     /\ UNCHANGED <<now, propsList, globalState, value, nextId, bridge,
                    received, renders, polls>>

\* the value callbackSubmit hands to streamlitReturnFn("submit", ...)
Class_submitValue(cfg, option) ==
  IF cfg.is_multi THEN V_list(Labels(option.l))
  ELSE IF option.t = "option" THEN V_str(option.o.value) ELSE V_undef

\* the state callbackSubmit's updater returns
Class_callbackSubmit(cfg, s, option) ==
  IF cfg.clear_on_submit
  THEN [menu |-> FALSE, inputValue |-> "", selectedOption |-> O_null,
        selectedOptionList |-> <<>>]
  ELSE LET input ==
             CASE cfg.edit_after_submit = "current" -> s.inputValue
               [] cfg.edit_after_submit = "option" -> LabelOf(option)
               [] cfg.edit_after_submit = "concat" ->
                    Coerce(s.inputValue) \o " " \o Coerce(LabelOf(option))
               [] OTHER -> ""
       IN [menu |-> FALSE, selectedOption |-> option, inputValue |-> input,
           selectedOptionList |-> IF cfg.is_multi THEN option.l
                                  ELSE s.selectedOptionList]

\* onChange, case "select-option"
Class_onSelectOption(i, option) ==
  /\ i \in SearchIndices
  /\ Room
  /\ option \in SelectArgs(i)
  /\ Class_Emit([interaction |-> "submit",
                 value |-> Class_submitValue(Cfg(i), option), index |-> i])
  /\ state' = [state EXCEPT ![i] = Class_callbackSubmit(Cfg(i), @, option)]
  /\ eventFired' = [eventFired EXCEPT ![i] = "submit"]
  /\ lastOp' = Op("select-option", i, option, "")
  /\ lastFired' = [lastFired EXCEPT ![i] = "submit"]
  /\ UNCHANGED <<now, propsList, value, lastSearchUpdate, timers, nextTimerId,
                 renders, keys, polls>>

\* onChange, case "remove-value"
Class_onRemoveValue(i, option) ==
  /\ i \in SearchIndices
  /\ Room
  /\ option \in RemoveArgs(i)
  /\ lastOp' = Op("remove-value", i, option, "")
  /\ IF ~Cfg(i).is_multi
     THEN UNCHANGED <<now, propsList, globalState, state, value,
                      lastSearchUpdate, eventFired, timers, nextTimerId,
                      nextId, bridge, received, renders, keys, polls,
                      lastFired>>
     ELSE /\ Class_Emit([interaction |-> "submit",
                         value |-> Class_submitValue(Cfg(i), option),
                         index |-> i])
          /\ state' = [state EXCEPT ![i] =
                         Class_callbackSubmit(Cfg(i), @, option)]
          /\ eventFired' = [eventFired EXCEPT ![i] = "submit"]
          /\ lastFired' = [lastFired EXCEPT ![i] = "submit"]
          /\ UNCHANGED <<now, propsList, value, lastSearchUpdate, timers,
                         nextTimerId, renders, keys, polls>>

\* onChange, case "clear": callbackReset
Class_onClear(i) ==
  /\ i \in SearchIndices
  /\ Room
  /\ Class_Emit([interaction |-> "reset", value |-> V_str(""), index |-> i])
  /\ state' = [state EXCEPT ![i] = callbackReset]
  /\ eventFired' = [eventFired EXCEPT ![i] = "reset"]
  /\ lastOp' = Op("clear", i, O_null, "")
  /\ lastFired' = [lastFired EXCEPT ![i] = "reset"]
  /\ UNCHANGED <<now, propsList, value, lastSearchUpdate, timers, nextTimerId,
                 renders, keys, polls>>

\* onClick of the button
Class_onButtonClick(i) ==
  /\ i \in SearchIndices
  /\ Cfg(i).button
  /\ Room
  /\ Class_Emit([interaction |-> "button-click",
                 value |-> selectedLabel(state[i]), index |-> i])
  /\ eventFired' = [eventFired EXCEPT ![i] = "button-click"]
  /\ lastOp' = Op("button-click", i, O_null, "")
  /\ lastFired' = [lastFired EXCEPT ![i] = "button-click"]
  /\ UNCHANGED <<now, propsList, state, value, lastSearchUpdate, timers,
                 nextTimerId, renders, keys, polls>>

\* the callback callbackSearch gave to setTimeout:
\* this.props.streamlitReturnFn("search", this.lastSearchUpdate.current?.value)
Class_searchTimeout ==
  /\ timers # <<>>
  /\ Due(NextTimer)
  /\ LET k == NextTimer
         tm == timers[k]
         cur == lastSearchUpdate[tm.index]
     IN /\ Class_Emit([interaction |-> "search",
                       value |-> IF cur.set THEN V_str(cur.value) ELSE V_undef,
                       index |-> tm.index])
        /\ timers' = [j \in 1 .. Len(timers) - 1 |->
                        IF j < k THEN timers[j] ELSE timers[j + 1]]
        /\ lastOp' = Op("timeout", tm.index, O_null,
                        IF cur.set THEN cur.value ELSE UndefinedText)
  /\ UNCHANGED <<now, propsList, state, value, lastSearchUpdate, eventFired,
                 nextTimerId, renders, keys, polls, lastFired>>

NextClass ==
  \/ \E i \in Indices, t \in Texts : Class_onInputChange(i, t)
  \/ \E i \in Indices : \E option \in SelectArgs(i) :
       Class_onSelectOption(i, option)
  \/ \E i \in Indices : \E option \in RemoveArgs(i) :
       Class_onRemoveValue(i, option)
  \/ \E i \in Indices : Class_onClear(i)
  \/ \E i \in Indices : Class_onButtonClick(i)
  \/ Class_searchTimeout
  \/ Tick

SpecClass == ClassFirstRender /\ [][NextClass]_vars

----------------------------------------------------------------------------
(* What the histories say *)

Last(q) == q[Len(q)]

IsSearchOf(b, i) == b.action.interaction = "search" /\ b.action.index = i

\* the values of the search events instance i pushed, in order
SearchValues(i) ==
  LET sel == SelectSeq(bridge, LAMBDA b : IsSearchOf(b, i))
  IN [k \in 1 .. Len(sel) |-> sel[k].action.value]

\* the texts instance i was given, in order
KeyValues(i) == [k \in 1 .. Len(keys[i]) |-> V_str(keys[i][k].text)]

Pending(i) == \E k \in 1 .. Len(timers) : timers[k].index = i

\* every keystroke came less than the debounce interval after the previous
Burst(i) ==
  \A k \in 2 .. Len(keys[i]) :
    keys[i][k].at - keys[i][k - 1].at < Cfg(i).debounce

\* every keystroke came more than the debounce interval after the previous
Spaced(i) ==
  \A k \in 2 .. Len(keys[i]) :
    keys[i][k].at - keys[i][k - 1].at > Cfg(i).debounce

IsPrefix(p, q) == Len(p) <= Len(q) /\ \A k \in 1 .. Len(p) : p[k] = q[k]

\* a search event carrying text was pushed for instance i after position pos
SearchedAfter(i, text, pos) ==
  \E p \in pos + 1 .. Len(bridge) :
    IsSearchOf(bridge[p], i) /\ bridge[p].action.value = V_str(text)

----------------------------------------------------------------------------
\* C1: keystrokes on one instance that each come less than the debounce
\* interval after the previous one produce exactly one search event, and it
\* carries the text of the last keystroke.
C1_OneSearchPerBurst ==
  \A i \in SearchIndices :
    (keys[i] # <<>> /\ Burst(i)) =>
      /\ Len(SearchValues(i)) <= 1
      /\ ~Pending(i) => SearchValues(i) = <<V_str(Last(keys[i]).text)>>

\* C2: keystrokes on one instance that are more than the debounce interval
\* apart produce one search event per keystroke, each with that keystroke's
\* text, in keystroke order (the event of the last keystroke may be pending).
C2_OneSearchPerSpacedKeystroke ==
  \A i \in SearchIndices :
    Spaced(i) =>
      /\ IsPrefix(SearchValues(i), KeyValues(i))
      /\ Len(SearchValues(i)) >= Len(keys[i]) - 1
      /\ ~Pending(i) => SearchValues(i) = KeyValues(i)

C2_Witness ==
  \E i \in SearchIndices :
    /\ Len(keys[i]) = 2
    /\ Spaced(i)
    /\ Len(SearchValues(i)) = 2
    /\ SearchValues(i)[1] # SearchValues(i)[2]

\* C3: after the last keystroke on an instance, a search event carrying its
\* text has been pushed, or the debounce interval since that keystroke has
\* not elapsed and a timer that will push it within the interval is pending.
C3_LastKeystrokeSearchedInTime ==
  \A i \in SearchIndices :
    keys[i] # <<>> =>
      LET k == Last(keys[i])
          deadline == k.at + Cfg(i).debounce
      IN \/ SearchedAfter(i, k.text, k.pos)
         \/ /\ now <= deadline
            /\ \E j \in 1 .. Len(timers) :
                 /\ timers[j].index = i
                 /\ timers[j].fireAt <= deadline
                 /\ timers[j].ref.set
                 /\ timers[j].ref.value = k.text

C3_Witness ==
  \E i \in SearchIndices :
    /\ Len(keys[i]) = 2
    /\ keys[i][2].at - keys[i][1].at < Cfg(i).debounce
    /\ keys[i][2].at > keys[i][1].at
    /\ SearchedAfter(i, keys[i][2].text, keys[i][2].pos)
    /\ now = keys[i][2].at + Cfg(i).debounce

----------------------------------------------------------------------------
NoHoles(list) == \A k \in 1 .. Len(list) : list[k] # V_undef

\* C4: the value list of the AggregateValue, and of every AggregateValue
\* pushed, has exactly one entry per configuration position.
C4_ValueListLength ==
  /\ Len(globalState.valueList) = Len(propsList)
  /\ NoHoles(globalState.valueList)
  /\ \A p \in 1 .. Len(bridge) :
       /\ Len(bridge[p].valueList) = Len(propsList)
       /\ NoHoles(bridge[p].valueList)

C4_Witness ==
  /\ Len(propsList) = 2
  /\ \E p, q \in 1 .. Len(bridge) :
       /\ p < q
       /\ bridge[p].action.interaction = "submit"
       /\ bridge[q].action.interaction = "reset"
       /\ bridge[p].action.index = bridge[q].action.index

\* C5: once the host has re-rendered with a configuration list of another
\* length, every value list pushed has the length of the current
\* configuration list.
C5_PushedListFollowsConfiguration ==
  [][(renders' > 0 /\ Len(bridge') > Len(bridge)) =>
       Len(Last(bridge').valueList) = Len(propsList')]_vars

----------------------------------------------------------------------------
WritingKinds == {"submit", "simple-value", "reset"}

\* instance j pushed no submit, simple-value or reset event so far
Untouched(j) ==
  \A p \in 1 .. Len(bridge) :
    ~(bridge[p].action.index = j /\ bridge[p].action.interaction \in WritingKinds)

SlotsKeptExcept(i) ==
  /\ Len(globalState'.valueList) = Len(globalState.valueList)
  /\ \A j \in Indices :
       j # i => Get(globalState'.valueList, j) = Get(globalState.valueList, j)

\* C6: an event with index i leaves every slot other than i as it was, an
\* event that is not a submit, simple-value or reset leaves every slot as it
\* was, and the slot of an instance that pushed none of these three holds the
\* instance's configured default, null when it has none.
C6_EventWritesOnlyItsSlot ==
  /\ [](\A j \in Indices :
          Untouched(j) =>
            Get(globalState.valueList, j) = NullishToNull(Cfg(j).default))
  /\ [][Len(bridge') > Len(bridge) =>
          /\ SlotsKeptExcept(globalState'.action.index)
          /\ globalState'.action.interaction \notin WritingKinds =>
               globalState'.valueList = globalState.valueList]_vars

C6_Witness ==
  /\ Len(propsList) = 2
  /\ Untouched(0)
  /\ Get(globalState.valueList, 0) = CfgSingle.default
  /\ \E p, q \in 1 .. Len(bridge) :
       /\ bridge[p].action.interaction = "simple-value"
       /\ bridge[p].action.index = 1
       /\ bridge[q].action.interaction = "search"
       /\ bridge[q].action.index = 0
       /\ Get(globalState.valueList, 1) # NullishToNull(CfgDate.default)

\* C7: every slot of the value list has the shape of its instance's
\* multiplicity flag: a string or null for a single-select instance, a list
\* for a multi-select instance.
C7_SlotShapeMatchesMultiplicity ==
  \A i \in Indices :
    IF Cfg(i).is_multi
    THEN Get(globalState.valueList, i).t = "list"
    ELSE Get(globalState.valueList, i).t \in {"string", "null"}

\* C8: every event the aggregator receives is pushed to the host exactly
\* once, as an object that was not pushed before, and neither an object
\* pushed earlier nor the list it holds has changed since.
C8_ReplacedAndPushedOnce ==
  /\ Len(bridge) = received
  /\ bridge # <<>> => globalState = Last(bridge)
  /\ \A p \in 1 .. Len(bridge) :
       /\ bridge[p].id # InitialGlobalState(propsList).id
       /\ bridge[p].listId = InitialGlobalState(propsList).listId =>
            bridge[p].valueList = InitialGlobalState(propsList).valueList
       /\ \A q \in p + 1 .. Len(bridge) :
            /\ bridge[q].id # bridge[p].id
            /\ bridge[q].listId = bridge[p].listId =>
                 bridge[q].valueList = bridge[p].valueList

C8_Witness ==
  \E p, q \in 1 .. Len(bridge) :
    /\ p < q
    /\ bridge[p].action.interaction = "submit"
    /\ bridge[q].action.interaction = "reset"
    /\ Len(bridge) = 3
    /\ bridge[3].listId = bridge[2].listId

\* the handler that ran last pushed exactly one event, the given one
PushedOne(input) ==
  /\ Len(bridge) = lastOp.pos + 1
  /\ received = Len(bridge)
  /\ Last(bridge).action = input

\* C9: a submit in multi-select mode with N selected options pushes exactly
\* one submit event, whose value is the list of the N labels in the order of
\* the selection.
C9_MultiSubmitPushesLabels ==
  (/\ lastOp.op \in {"select-option", "remove-value"}
   /\ lastOp.index \in SearchIndices
   /\ Cfg(lastOp.index).is_multi) =>
     /\ Len(bridge) = lastOp.pos + 1
     /\ received = Len(bridge)
     /\ Last(bridge).action.interaction = "submit"
     /\ Last(bridge).action.index = lastOp.index
     /\ LET v == Last(bridge).action.value
        IN /\ v.t = "list"
           /\ Len(v.l) = Len(lastOp.option.l)
           /\ \A k \in 1 .. Len(v.l) : v.l[k] = lastOp.option.l[k].label

C9_Witness ==
  /\ lastOp.op = "select-option"
  /\ lastOp.index \in SearchIndices
  /\ Cfg(lastOp.index).is_multi
  /\ lastOp.option.l = <<OptBaz, OptBar>>
  /\ Last(bridge).action.value = V_list(<<"Baz", "Bar">>)

\* C10: selecting an option in single-select mode pushes exactly one submit
\* event, whose value is the label of the selected option.
C10_SingleSubmitPushesLabel ==
  (/\ lastOp.op = "select-option"
   /\ lastOp.index \in SearchIndices
   /\ ~Cfg(lastOp.index).is_multi) =>
     PushedOne([interaction |-> "submit",
                value |-> V_str(lastOp.option.o.label),
                index |-> lastOp.index])

C10_Witness ==
  /\ lastOp.op = "select-option"
  /\ lastOp.index \in SearchIndices
  /\ ~Cfg(lastOp.index).is_multi
  /\ lastOp.option = O_one(OptBaz)
  /\ Last(bridge).action.value = V_str("Baz")

----------------------------------------------------------------------------
\* the handler that ran last was a submit of instance i
Submitted(i) ==
  /\ lastOp.index = i
  /\ \/ lastOp.op = "select-option"
     \/ lastOp.op = "remove-value" /\ Cfg(i).is_multi

\* this step is the selection of one option on single-select instance i
SelectsOne(i) ==
  /\ Len(bridge') > Len(bridge)
  /\ lastOp'.op = "select-option"
  /\ lastOp'.index = i
  /\ lastOp'.option.t = "option"

\* C11: when clear_on_submit is set, after a submit the instance's input
\* text is empty and nothing is selected, whatever the edit mode and the
\* multiplicity.
C11_SubmitClearEmptiesInstance ==
  \A i \in SearchIndices :
    (Submitted(i) /\ Cfg(i).clear_on_submit) =>
      /\ state[i].inputValue = ""
      /\ state[i].selectedOption = O_null
      /\ state[i].selectedOptionList = <<>>

C13_DisabledClearsAll_Claimed ==
  \A i \in SearchIndices :
    (Submitted(i) /\ Cfg(i).edit_after_submit = "disabled") =>
      /\ state[i].inputValue = ""
      /\ state[i].selectedOption = O_null

\* C13, amended: in edit mode disabled a submit leaves the input text empty;
\* unless clear_on_submit is set, what was submitted stays selected.
C13_DisabledClearsText ==
  \A i \in SearchIndices :
    (Submitted(i) /\ Cfg(i).edit_after_submit = "disabled") =>
      /\ state[i].inputValue = ""
      /\ ~Cfg(i).clear_on_submit => state[i].selectedOption = lastOp.option

C13_Witness ==
  \E i \in SearchIndices :
    /\ Submitted(i)
    /\ Cfg(i).edit_after_submit = "disabled"
    /\ ~Cfg(i).clear_on_submit
    /\ ~Cfg(i).is_multi
    /\ keys[i] # <<>>
    /\ Len(bridge) = 1
    /\ state[i].inputValue = ""
    /\ state[i].selectedOption = O_one(OptBaz)

----------------------------------------------------------------------------
\* C14: clearing the control pushes exactly one reset event with the empty
\* string as value and leaves the instance with empty text, no selected
\* option, an empty list of selected options and the menu closed.
C14_ClearResetsInstance ==
  \A i \in SearchIndices :
    (lastOp.op = "clear" /\ lastOp.index = i) =>
      /\ PushedOne([interaction |-> "reset", value |-> V_str(""), index |-> i])
      /\ state[i].inputValue = ""
      /\ state[i].selectedOption = O_null
      /\ state[i].selectedOptionList = <<>>
      /\ ~state[i].menu

\* cleared right after a submit that left text, a selection and an open menu
C14_Witness ==
  \E i \in SearchIndices :
    /\ lastOp.op = "clear"
    /\ lastOp.index = i
    /\ Cfg(i).is_multi
    /\ ~Cfg(i).clear_on_submit
    /\ Cfg(i).edit_after_submit = "current"
    /\ keys[i] # <<>>
    /\ Len(bridge) = 2
    /\ bridge[1].action.interaction = "submit"
    /\ bridge[1].action.value = V_list(<<"Bar">>)
    /\ state[i].inputValue = ""

\* C15: a reset event with index i sets slot i to the empty list when the
\* slot held a non-empty string or a non-empty list, and to null when it held
\* null, the empty string or the empty list.
C15_ResetTogglesSlot ==
  [][(Len(bridge') > Len(bridge) /\ Last(bridge').action.interaction = "reset") =>
       LET i == Last(bridge').action.index
           prior == Get(globalState.valueList, i)
           after == Get(Last(bridge').valueList, i)
       IN IF \/ prior.t = "string" /\ prior.s # ""
             \/ prior.t = "list" /\ prior.l # <<>>
          THEN after = V_list(<<>>)
          ELSE /\ prior \in {V_null, V_str(""), V_list(<<>>)}
               /\ after = V_null]_vars

C15_Witness ==
  /\ Len(bridge) = 3
  /\ bridge[1].action.interaction = "submit"
  /\ bridge[2].action.interaction = "reset"
  /\ bridge[3].action.interaction = "reset"
  /\ Get(bridge[1].valueList, 0) = V_list(<<"Baz">>)
  /\ Get(bridge[2].valueList, 0) = V_list(<<>>)
  /\ Get(bridge[3].valueList, 0) = V_null

\* C16: every value list pushed for a submit or simple-value event with
\* index i and value v holds v in slot i.
C16_SubmitOverwritesSlot ==
  \A p \in 1 .. Len(bridge) :
    bridge[p].action.interaction \in {"submit", "simple-value"} =>
      Get(bridge[p].valueList, bridge[p].action.index) = bridge[p].action.value

\* a submit over the default and a second submit over the first
C16_Witness ==
  /\ Len(bridge) = 2
  /\ Get(InitialGlobalState(propsList).valueList, 0) = V_str("d0")
  /\ bridge[1].action = [interaction |-> "submit", value |-> V_str("Bar"),
                         index |-> 0]
  /\ bridge[2].action = [interaction |-> "submit", value |-> V_str("Baz"),
                         index |-> 0]
  /\ Get(bridge[2].valueList, 0) = V_str("Baz")

\* the event the handler that ran last handed to the aggregator
HandedOver ==
  CASE lastOp.op \in {"select-option", "remove-value"} ->
         [interaction |-> "submit",
          value |-> submitValue(Cfg(lastOp.index), lastOp.option),
          index |-> lastOp.index]
    [] lastOp.op = "clear" ->
         [interaction |-> "reset", value |-> V_str(""), index |-> lastOp.index]
    [] lastOp.op = "button-click" ->
         [interaction |-> "button-click",
          value |-> selectedLabel(state[lastOp.index]), index |-> lastOp.index]
    [] lastOp.op = "change" ->
         [interaction |-> "simple-value", value |-> V_str(lastOp.input),
          index |-> lastOp.index]
    [] lastOp.op = "header-click" ->
         [interaction |-> "header-click", value |-> V_str(lastOp.input),
          index |-> -1]
    [] lastOp.op = "footer-click" ->
         [interaction |-> "footer-click", value |-> V_str(lastOp.input),
          index |-> -1]
    [] lastOp.op \in {"timeout", "focus"} ->
         [interaction |-> "search", value |-> V_text(lastOp.input),
          index |-> lastOp.index]
    [] OTHER -> NoAction

\* C17: the last action of the AggregateValue is null exactly before the
\* first event; after an event it is that event, with its kind, value and
\* index, and so is the last action of the AggregateValue pushed for it.
C17_LastActionIsTheEvent ==
  /\ globalState.action = NoAction <=> received = 0
  /\ bridge # <<>> => Last(bridge).action = globalState.action
  /\ Len(bridge) = lastOp.pos + 1 => globalState.action = HandedOver

\* a button click after a submit: the last action moved on, the slot did not
C17_Witness ==
  /\ Len(bridge) = 3
  /\ bridge[1].action.interaction = "submit"
  /\ bridge[2].action.interaction = "search"
  /\ lastOp.op = "button-click"
  /\ globalState.action = [interaction |-> "button-click",
                           value |-> V_str("Bar"), index |-> 0]

----------------------------------------------------------------------------
\* a callback of a focus of instance i on text is pending and the host's
\* option_source for i is that text
Awaited(i, text) ==
  /\ i \in SearchIndices
  /\ \E p \in polls : p.index = i /\ p.inputValue = text
  /\ Cfg(i).option_source = text

\* C18: after a focus on non-empty text T, once the option_source the host
\* supplies equals T the menu of the instance is eventually open.
C18_FocusOpensMenu ==
  \A i \in 0 .. MaxInstances - 1 : \A text \in Texts :
    Awaited(i, text) ~> (i \in SearchIndices /\ state[i].menu)

\* C19: a focus on non-empty text T pushes exactly one search event carrying
\* T within the handler, no time passing and no timer involved, and starts
\* one poll; a focus on empty text pushes nothing and starts no poll.
C19_FocusSearchesAtOnce ==
  /\ [](lastOp.op = "focus" =>
          IF lastOp.input \in {"", UndefinedText}
          THEN Len(bridge) = lastOp.pos /\ received = Len(bridge)
          ELSE PushedOne([interaction |-> "search",
                          value |-> V_str(lastOp.input),
                          index |-> lastOp.index]))
  /\ [][(lastOp'.op = "focus" /\ lastOp' # lastOp) =>
          /\ now' = now
          /\ timers' = timers
          /\ lastOp'.input = state[lastOp'.index].inputValue
          /\ IF lastOp'.input \in {"", UndefinedText}
             THEN polls' = polls /\ bridge' = bridge
             ELSE /\ Len(bridge') = Len(bridge) + 1
                  /\ \E p \in polls' :
                       /\ p.index = lastOp'.index
                       /\ p.inputValue = lastOp'.input
                       /\ p.chained
                       /\ polls' = polls \cup {p}]_vars

\* a focus on typed text while the debounce timer of that text is pending
C19_Witness ==
  /\ lastOp.op = "focus"
  /\ lastOp.input = "ab"
  /\ Last(bridge).action = [interaction |-> "search", value |-> V_str("ab"),
                            index |-> lastOp.index]
  /\ \E k \in 1 .. Len(timers) :
       timers[k].index = lastOp.index /\ timers[k].fireAt > now

\* C20: at every render of an instance the loading indicator is shown
\* exactly when the last interaction the instance fired was search and the
\* option_source differs from the input text.
C20_LoadingWhileSearchUnanswered ==
  \A i \in SearchIndices :
    isLoading(i) <=>
      (lastFired[i] = "search" /\ Cfg(i).option_source # state[i].inputValue)

----------------------------------------------------------------------------
\* C21: the options an instance lists are the configured default options
\* whenever its input text is empty, and the options the host supplied, all
\* of them in the host's order, whenever it is not.
C21_OptionListByText ==
  \A i \in SearchIndices :
    menuOptions(i) = IF state[i].inputValue = "" THEN Cfg(i).default_options
                     ELSE Cfg(i).options

\* typed text, answered by the host with a list in an order of its own
C21_Witness ==
  \E i \in SearchIndices :
    /\ state[i].inputValue = "ab"
    /\ Cfg(i).option_source = "ab"
    /\ Cfg(i).default_options = <<OptBar>>
    /\ menuOptions(i) = <<OptBaz, OptBar>>

----------------------------------------------------------------------------
\* C22: a click on the button of an instance pushes exactly one button-click
\* event whose value is the label of the option selected at that moment (or
\* undefined when none is), and leaves the instance's state (text, selection,
\* menu) and every slot of the value list as they were.
C22_ButtonClickFrame ==
  /\ [](lastOp.op = "button-click" =>
          LET sel == state[lastOp.index].selectedOption
          IN PushedOne([interaction |-> "button-click",
                        value |-> IF sel.t = "option" THEN V_str(sel.o.label)
                                  ELSE V_undef,
                        index |-> lastOp.index]))
  /\ [][(lastOp'.op = "button-click" /\ lastOp' # lastOp) =>
          /\ state' = state
          /\ globalState'.valueList = globalState.valueList
          /\ Last(bridge').valueList = globalState.valueList]_vars

\* a click after Baz was selected: the label, not the option's value
C22_Witness ==
  /\ lastOp.op = "button-click"
  /\ state[lastOp.index].selectedOption = O_one(OptBaz)
  /\ state[lastOp.index].inputValue = "Baz"
  /\ Last(bridge).action.value = V_str("Baz")
  /\ Get(Last(bridge).valueList, lastOp.index) = V_str("Baz")

\* C23: a click on the header or on the footer pushes exactly one aggregate
\* value whose action has index -1, the interaction header-click or
\* footer-click of the region clicked and the id of the element clicked, and
\* whose value list is the one before the click.
C23_HeaderFooterClick ==
  /\ [](lastOp.op \in {"header-click", "footer-click"} =>
          PushedOne([interaction |-> lastOp.op, value |-> V_str(lastOp.input),
                     index |-> -1]))
  /\ [][(lastOp'.op \in {"header-click", "footer-click"} /\ lastOp' # lastOp) =>
          /\ Last(bridge').valueList = globalState.valueList
          /\ globalState'.valueList = globalState.valueList
          /\ state' = state]_vars

\* a header click and a footer click after a submit wrote a slot
C23_Witness ==
  /\ Len(bridge) = 3
  /\ bridge[1].action.interaction = "submit"
  /\ bridge[2].action.interaction = "header-click"
  /\ bridge[3].action = [interaction |-> "footer-click",
                         value |-> V_str("el1"), index |-> -1]
  /\ bridge[3].valueList = bridge[1].valueList
  /\ bridge[1].valueList # InitialGlobalState(propsList).valueList

\* C24: a change of the datetime input to v pushes at once, with no timer
\* and no passing of time, one simple-value event with v and the index of the
\* widget; the widget's local value is v and the slot of that index in the
\* pushed value list holds v.
C24_DatetimeChange ==
  /\ [](lastOp.op = "change" =>
          /\ PushedOne([interaction |-> "simple-value",
                        value |-> V_str(lastOp.input), index |-> lastOp.index])
          /\ value[lastOp.index] = lastOp.input
          /\ Get(Last(bridge).valueList, lastOp.index) = V_str(lastOp.input))
  /\ [][(lastOp'.op = "change" /\ lastOp' # lastOp) =>
          /\ now' = now
          /\ timers' = timers
          /\ Len(bridge') = Len(bridge) + 1]_vars

\* a change of the date while a search of the neighbour is still pending
C24_Witness ==
  /\ lastOp.op = "change"
  /\ value[lastOp.index] = "2024-01-01"
  /\ InitialValue(Cfg(lastOp.index)) # "2024-01-01"
  /\ Get(globalState.valueList, lastOp.index) = V_str("2024-01-01")
  /\ \E k \in 1 .. Len(timers) : timers[k].fireAt > now

----------------------------------------------------------------------------
\* C25: on a keystroke at time t of an instance with debounce d: when a
\* record exists with creation time c and t - c <= d - 10, the timer queue
\* stays as it is and the record keeps its timer and its creation time; when
\* t - c > d - 10, the timer of the record is no longer pending and one new
\* timer is scheduled for t + d, with creation time t; when no record exists
\* one new timer is scheduled for t + d.  In all three cases the record
\* holds the text of the keystroke.
C25_DebounceRule ==
  [][(lastOp'.op = "input-change" /\ lastOp' # lastOp) =>
       LET i == lastOp'.index
           cur == lastSearchUpdate[i]
           new == lastSearchUpdate'[i]
           d == Cfg(i).debounce
           others == SelectSeq(timers, LAMBDA tm : tm.id # cur.id)
           fresh == /\ Len(timers') > 0
                    /\ Last(timers').index = i
                    /\ Last(timers').fireAt = now + d
                    /\ Last(timers').id = new.id
                    /\ \A k \in 1 .. Len(timers) :
                         timers[k].id # Last(timers').id
                    /\ new.createdAt = now
       IN /\ new.set
          /\ new.value = lastOp'.input
          /\ (cur.set /\ now - cur.createdAt <= d - DebounceSlack) =>
                /\ timers' = timers
                /\ new.id = cur.id
                /\ new.createdAt = cur.createdAt
          /\ (cur.set /\ now - cur.createdAt > d - DebounceSlack) =>
                /\ fresh
                /\ SubSeq(timers', 1, Len(timers') - 1) = others
          /\ ~cur.set =>
                /\ fresh
                /\ SubSeq(timers', 1, Len(timers') - 1) = timers]_vars

\* a second keystroke exactly debounce - 10 ms after the first joined its
\* timer
C25_Witness ==
  \E i \in SearchIndices :
    /\ lastOp.op = "input-change" /\ lastOp.index = i
    /\ Len(keys[i]) = 2
    /\ keys[i][2].at - keys[i][1].at = Cfg(i).debounce - DebounceSlack
    /\ lastSearchUpdate[i].createdAt = keys[i][1].at
    /\ lastSearchUpdate[i].value = keys[i][2].text
    /\ Len(timers) = 1
    /\ timers[1].fireAt = keys[i][1].at + Cfg(i).debounce

\* a keystroke later than that replaced the pending timer
C25_Cancelled ==
  \E i \in SearchIndices :
    /\ lastOp.op = "input-change" /\ lastOp.index = i
    /\ Len(keys[i]) = 2
    /\ Len(timers) = 1
    /\ timers[1].id = 2
    /\ timers[1].fireAt = keys[i][2].at + Cfg(i).debounce
    /\ keys[i][2].at <= keys[i][1].at + Cfg(i).debounce
    /\ Len(bridge) = 0

----------------------------------------------------------------------------
\* C26: when the callback of a focus poll opens the menu of an instance, the
\* option_source the host supplied to the instance equals the text the
\* instance held when it was focused.
C26_PollOpensOnlyWhenAnswered ==
  [][(/\ lastOp'.op = "poll"
      /\ ~state[lastOp'.index].menu
      /\ state'[lastOp'.index].menu) =>
       Cfg(lastOp'.index).option_source = lastOp'.input]_vars

----------------------------------------------------------------------------
\* the interaction a handler hands to the aggregator
InteractionOf(op) ==
  CASE op = "timeout" -> "search"
    [] op = "focus" -> "search"
    [] op = "select-option" -> "submit"
    [] op = "remove-value" -> "submit"
    [] op = "clear" -> "reset"
    [] op = "change" -> "simple-value"
    [] OTHER -> op

RECURSIVE SlotAfter(_, _)
\* what slot j holds once the first p events pushed have been applied, one
\* after the other, to the defaults
SlotAfter(j, p) ==
  IF p = 0 THEN NullishToNull(Cfg(j).default)
  ELSE LET a == bridge[p].action
           prev == SlotAfter(j, p - 1)
       IN IF a.index # j THEN prev
          ELSE IF a.interaction \in {"submit", "simple-value"} THEN a.value
          ELSE IF a.interaction = "reset"
          THEN IF HasLength(prev) THEN V_list(<<>>) ELSE V_null
          ELSE prev

\* C27: events of different instances are applied one after the other and
\* none is lost: every aggregate value pushed holds, slot by slot, the
\* writes of all the events pushed up to it, and every event handed to the
\* aggregator is pushed at once, after all those handed over before it, as
\* the last action of its push.
C27_SerializedWrites ==
  /\ [](\A p \in 1 .. Len(bridge) :
          /\ Len(bridge[p].valueList) = Len(propsList)
          /\ \A j \in Indices : Get(bridge[p].valueList, j) = SlotAfter(j, p))
  /\ [][received' # received =>
          /\ received' = received + 1
          /\ bridge' = Append(bridge, Last(bridge'))
          /\ Last(bridge').action.interaction = InteractionOf(lastOp'.op)
          /\ Last(bridge').action.index = lastOp'.index
          /\ globalState' = Last(bridge')]_vars

\* a submit of the search box, a change of the date and a reset of the
\* search box, in that order
C27_Witness ==
  /\ Len(bridge) = 3
  /\ bridge[1].action.interaction = "submit" /\ bridge[1].action.index = 0
  /\ bridge[2].action.interaction = "simple-value"
  /\ bridge[2].action.index = 1
  /\ bridge[3].action.interaction = "reset" /\ bridge[3].action.index = 0
  /\ bridge[2].valueList = <<V_str("Baz"), V_str("2024-01-01")>>
  /\ bridge[3].valueList = <<V_list(<<>>), V_str("2024-01-01")>>

----------------------------------------------------------------------------
\* C28: a remove-value change of a single-select instance pushes nothing and
\* leaves the state of every instance, the aggregator, the refs and the
\* timers as they were; of a multi-select instance it pushes one submit whose
\* value is the list of the labels of the options that remain selected, and
\* these become the instance's selected options.
C28_RemoveValue ==
  [][(lastOp'.op = "remove-value" /\ lastOp' # lastOp) =>
       LET i == lastOp'.index
       IN IF ~Cfg(i).is_multi
          THEN UNCHANGED <<now, propsList, globalState, state, value,
                           lastSearchUpdate, eventFired, timers, nextTimerId,
                           nextId, bridge, received, polls>>
          ELSE /\ bridge' = Append(bridge, Last(bridge'))
               /\ received' = received + 1
               /\ Last(bridge').action =
                    [interaction |-> "submit",
                     value |-> V_list(Labels(lastOp'.option.l)), index |-> i]
               /\ Get(Last(bridge').valueList, i) =
                    V_list(Labels(lastOp'.option.l))
               /\ state'[i].selectedOptionList = lastOp'.option.l]_vars

\* Bar removed from the selection Bar, Baz of a multi-select instance
C28_Witness ==
  \E i \in SearchIndices :
    /\ lastOp.op = "remove-value" /\ lastOp.index = i
    /\ Cfg(i).is_multi
    /\ Len(bridge) = 3
    /\ bridge[2].action.value = V_list(<<"Bar", "Baz">>)
    /\ bridge[3].action = [interaction |-> "submit",
                           value |-> V_list(<<"Baz">>), index |-> i]
    /\ state[i].selectedOptionList = <<OptBaz>>

\* a remove-value change of a single-select instance after a push
C28_SingleIgnored ==
  \E i \in SearchIndices :
    /\ lastOp.op = "remove-value" /\ lastOp.index = i
    /\ ~Cfg(i).is_multi
    /\ lastOp.pos = Len(bridge)
    /\ Len(bridge) > 0
    /\ timers # <<>>

----------------------------------------------------------------------------
\* C29: a keystroke makes the typed text the input text of its instance and
\* clears the instance's selected option; the instance's list of selected
\* options and its menu flag stay as they were, as does the state of every
\* other instance; nothing is pushed and the aggregator's state stays as it
\* was in that step.
C29_KeystrokeFrame ==
  [][(lastOp'.op = "input-change" /\ lastOp' # lastOp) =>
       LET i == lastOp'.index
       IN /\ state'[i].inputValue = lastOp'.input
          /\ state'[i].selectedOption = O_null
          /\ state'[i].selectedOptionList = state[i].selectedOptionList
          /\ state'[i].menu = state[i].menu
          /\ \A j \in Indices \ {i} : state'[j] = state[j]
          /\ bridge' = bridge
          /\ received' = received
          /\ globalState' = globalState]_vars

\* a keystroke of a multi-select instance whose menu is open and which has
\* Bar selected
C29_Witness ==
  \E i \in SearchIndices :
    /\ lastOp.op = "input-change" /\ lastOp.index = i
    /\ Cfg(i).is_multi
    /\ state[i] = [inputValue |-> "ab", selectedOption |-> O_null,
                   selectedOptionList |-> <<OptBar>>, menu |-> TRUE]
    /\ Len(bridge) = 1
    /\ bridge[1].action.interaction = "submit"
    /\ \E k \in 1 .. Len(timers) : timers[k].index = i

----------------------------------------------------------------------------
\* C30: in every state every instance has at most one debounce timer that is
\* scheduled and has neither fired nor been cancelled.
C30_OnePendingTimer ==
  \A i \in SearchIndices :
    Cardinality({k \in 1 .. Len(timers) : timers[k].index = i}) <= 1

----------------------------------------------------------------------------
\* the texts instance i had typed when push q was made, and since
TypedBefore(i, q) ==
  {keys[i][k].text : k \in {n \in 1 .. Len(keys[i]) : keys[i][n].pos < q}}
TypedSince(i, q) ==
  {keys[i][k].text : k \in {n \in 1 .. Len(keys[i]) : keys[i][n].pos >= q}}

\* C31: once a reset or a submit of an instance has been pushed, no search
\* of that instance is pushed whose value is a text typed before that reset
\* or submit (and not typed again since).
C31_NoStaleSearch ==
  \A i \in SearchIndices :
    \A p \in 1 .. Len(bridge) :
      IsSearchOf(bridge[p], i) =>
        \A q \in 1 .. p - 1 :
          (/\ bridge[q].action.index = i
           /\ bridge[q].action.interaction \in {"reset", "submit"}) =>
            \/ bridge[p].action.value.t # "string"
            \/ bridge[p].action.value.s \notin TypedBefore(i, q)
            \/ bridge[p].action.value.s \in TypedSince(i, q)

----------------------------------------------------------------------------
\* the pending timers of instance j, in the order they were set
TimersOf(q, j) == SelectSeq(q, LAMBDA tm : tm.index = j)

\* C32: a keystroke, a focus, a submit, a reset or a button click of an
\* instance leaves the pending timers of every other instance as they were
\* (none cancelled, none moved, none added) and leaves the input text, the
\* selection and the menu flag of every other instance as they were.
C32_InstancesIndependent ==
  [][(/\ lastOp'.op \in {"input-change", "focus", "select-option",
                         "remove-value", "clear", "button-click"}
      /\ lastOp' # lastOp) =>
       \A j \in SearchIndices \ {lastOp'.index} :
         /\ TimersOf(timers', j) = TimersOf(timers, j)
         /\ state'[j] = state[j]]_vars

\* a reset of one instance while the other has text, options selected and a
\* timer pending
C32_Witness ==
  \E i, j \in SearchIndices :
    /\ i # j
    /\ lastOp.op = "clear" /\ lastOp.index = i
    /\ state[j].inputValue = "ab"
    /\ state[j].selectedOptionList # <<>>
    /\ TimersOf(timers, j) # <<>>

----------------------------------------------------------------------------
\* a slot without its isChangeSource flag
Unflagged(slot) == [slot EXCEPT !.isChangeSource = FALSE]

\* the list of slots the aggregator held before push p
SlotsBefore(p) ==
  IF p = 1 THEN Class_InitialGlobalState(propsList).valueList
  ELSE bridge[p - 1].valueList

\* C33: in the aggregator that keeps one slot per instance, every list
\* pushed for an event of position i has one slot per instance, holds that
\* event with isChangeSource true in slot i, has isChangeSource true in no
\* other slot, and holds in every other slot what the slot held before the
\* event (null, or the same interaction and value).
C33_OneChangeSource ==
  \A p \in 1 .. Len(bridge) :
    LET a == bridge[p].action
        list == bridge[p].valueList
    IN /\ Len(list) = Len(propsList)
       /\ list[a.index + 1] = S_return(a.interaction, a.value, TRUE)
       /\ \A k \in 1 .. Len(list) :
            k # a.index + 1 =>
              /\ ~list[k].isChangeSource
              /\ Unflagged(list[k]) = Unflagged(SlotsBefore(p)[k])

\* a search of the first instance, a submit of the second, a reset of the
\* first: the flag moves and the slots stay
C33_Witness ==
  /\ Len(bridge) = 3
  /\ bridge[1].valueList = <<S_return("search", V_str("ab"), TRUE), S_null>>
  /\ bridge[2].valueList = <<S_return("search", V_str("ab"), FALSE),
                             S_return("submit", V_list(<<"Bar">>), TRUE)>>
  /\ bridge[3].valueList = <<S_return("reset", V_str(""), TRUE),
                             S_return("submit", V_list(<<"Bar">>), FALSE)>>

====
